---- MODULE Spec2Model ----
(***************************************************************************)
(* go-mydumper, common/loader.go: the restore driver Loader, its helpers   *)
(* loadFiles, restoreDatabaseSchema, restoreTableSchema, restoreTable, the *)
(* row-data goroutines and the progress reporter goroutine.                *)
(*                                                                         *)
(* Strings are sequences of one-character strings.  The connection pool,   *)
(* the connection's Execute, ReadFile and AssertNil belong to the same     *)
(* package but to other files; they are modelled from their contracts.     *)
(***************************************************************************)
EXTENDS Integers, Sequences, FiniteSets, TLC

\* ------------------------------------------------------------------ bounds
\* largest pool size (args.Threads) tried
MaxThreads == 2
\* largest number of row-data files in the dump directory
MaxTables == 2

\* --------------------------------------------------- strings (Go strings)
SubStr(s, a, b) == [i \in 1..(b - a + 1) |-> s[a + i - 1]]

HasPrefix(s, p) == Len(s) >= Len(p) /\ SubStr(s, 1, Len(p)) = p

HasSuffix(s, p) == Len(s) >= Len(p) /\ SubStr(s, Len(s) - Len(p) + 1, Len(s)) = p

\* strings.Index: first position (1-based) where sep starts in s, 0 if none
Index(s, sep) ==
    LET hits == {i \in 1..(Len(s) - Len(sep) + 1) : SubStr(s, i, i + Len(sep) - 1) = sep}
    IN IF hits = {} THEN 0 ELSE CHOOSE i \in hits : \A j \in hits : i <= j

\* strings.Split(s, sep) for a non-empty sep: the pieces between the leftmost
\* non-overlapping occurrences of sep; from is where the current piece starts,
\* at the position scanned
RECURSIVE SplitAt(_, _, _, _)
SplitAt(s, sep, from, at) ==
    IF at + Len(sep) - 1 > Len(s) THEN <<SubStr(s, from, Len(s))>>
    ELSE IF SubStr(s, at, at + Len(sep) - 1) = sep
         THEN <<SubStr(s, from, at - 1)>> \o SplitAt(s, sep, at + Len(sep), at + Len(sep))
         ELSE SplitAt(s, sep, from, at + 1)

Split(s, sep) == SplitAt(s, sep, 1, 1)

\* strings.Trim(s, cutset): drops every leading and trailing character of s
\* that occurs in cutset
Trim(s, cutset) ==
    LET cs == {cutset[i] : i \in 1..Len(cutset)}
        keep == {i \in 1..Len(s) : s[i] \notin cs}
    IN IF keep = {} THEN <<>>
       ELSE LET lo == CHOOSE i \in keep : \A j \in keep : i <= j
                hi == CHOOSE i \in keep : \A j \in keep : j <= i
            IN SubStr(s, lo, hi)

\* strings.TrimSuffix
TrimSuffix(s, suffix) ==
    IF HasSuffix(s, suffix) THEN SubStr(s, 1, Len(s) - Len(suffix)) ELSE s

\* filepath.Base for a non-empty path without trailing separator
Base(path) ==
    LET seps == {i \in 1..Len(path) : path[i] = "/"}
    IN IF seps = {} THEN path
       ELSE SubStr(path, (CHOOSE i \in seps : \A j \in seps : j <= i) + 1, Len(path))

dbSuffix == <<"-", "s", "c", "h", "e", "m", "a", "-", "c", "r", "e", "a", "t", "e", ".", "s", "q", "l">>
schemaSuffix == <<"-", "s", "c", "h", "e", "m", "a", ".", "s", "q", "l">>
tableSuffix == <<".", "s", "q", "l">>

\* the statement separator of restoreTableSchema and restoreTable
Separator == <<";", "\n">>
CommentPrefix == <<"/", "*">>

\* the backquote character (it cannot be written inside a TLA+ string)
Backquote == "BACKQUOTE"

\* the database-selection statement: "use " followed by db between backquotes
UseSql(db) == <<"u", "s", "e", " ", Backquote>> \o db \o <<Backquote>>

\* ------------------------------------------------- the dump directory tree
Dir == <<"o", "/">>

\* every entry filepath.Walk can visit, in the lexical order in which it
\* visits them; dir is info.IsDir()
Tree ==
    << [path |-> <<"o">>, dir |-> TRUE, kind |-> "fixed"],
       [path |-> Dir \o <<"a">> \o dbSuffix, dir |-> FALSE, kind |-> "fixed"],
       [path |-> Dir \o <<"a", ".", "t">> \o schemaSuffix, dir |-> FALSE, kind |-> "fixed"],
       [path |-> Dir \o <<"a", ".", "t">> \o tableSuffix, dir |-> FALSE, kind |-> "table"],
       [path |-> Dir \o <<"a", ".", "u", ".", "1">> \o tableSuffix, dir |-> FALSE, kind |-> "table"],
       [path |-> Dir \o <<"b", ".", "u">> \o schemaSuffix, dir |-> FALSE, kind |-> "fixed"],
       [path |-> Dir \o <<"l", ".", "v">> \o tableSuffix, dir |-> FALSE, kind |-> "table"],
       [path |-> Dir \o <<"m", "d">>, dir |-> FALSE, kind |-> "fixed"],
       [path |-> Dir \o <<"z">> \o tableSuffix, dir |-> TRUE, kind |-> "fixed"] >>

\* the text ReadFile returns for each file of the tree
FileText(path) ==
    CASE path = Dir \o <<"a">> \o dbSuffix -> <<"C">>
      [] path = Dir \o <<"a", ".", "t">> \o schemaSuffix ->
            <<"/", "*", "x", ";", "\n", "T", ";", "\n", "I">>
      [] path = Dir \o <<"b", ".", "u">> \o schemaSuffix -> <<"T", ";", "\n">>
      [] path = Dir \o <<"a", ".", "t">> \o tableSuffix -> <<"i", ";", "\n", "j">>
      [] path = Dir \o <<"a", ".", "u", ".", "1">> \o tableSuffix -> <<"/", "*", ";", "\n", "k">>
      [] path = Dir \o <<"l", ".", "v">> \o tableSuffix -> <<"n">>
      [] OTHER -> <<>>

\* the subsequence of s at the positions in keep, in the order of s
RECURSIVE Pick(_, _, _)
Pick(s, keep, n) ==
    IF n > Len(s) THEN <<>>
    ELSE (IF n \in keep THEN <<s[n]>> ELSE <<>>) \o Pick(s, keep, n + 1)

Count(keep, kind) == Cardinality({n \in keep : Tree[n].kind = kind})

\* the directory contents tried: the fixed entries (the directories, the
\* database file, the schema files, the metadata file) and any of the
\* row-data files, within the bound
Trees ==
    {Pick(Tree, keep, 1) : keep \in
        {k \in SUBSET (1..Len(Tree)) :
            /\ \A n \in 1..Len(Tree) : Tree[n].kind = "fixed" => n \in k
            /\ Count(k, "table") <= MaxTables}}

\* ------------------------------------------------------- pure helpers
\* loadFiles with the least specific suffix tested first
ClassifyTableFirst(entry) ==
    IF entry.dir THEN "none"
    ELSE IF HasSuffix(entry.path, tableSuffix) THEN "tables"
    ELSE IF HasSuffix(entry.path, schemaSuffix) THEN "schemas"
    ELSE IF HasSuffix(entry.path, dbSuffix) THEN "databases"
    ELSE "none"

\* loadFiles' switch: the list a visited entry is appended to, if any
Classify(entry) ==
    IF entry.dir THEN "none"
    ELSE IF HasSuffix(entry.path, dbSuffix) THEN "databases"
    ELSE IF HasSuffix(entry.path, schemaSuffix) THEN "schemas"
    ELSE IF HasSuffix(entry.path, tableSuffix) THEN "tables"
    ELSE "none"

\* the paths of the entries of tree that Classify sends to list, in order
RECURSIVE Collect(_, _)
Collect(tree, list) ==
    IF tree = <<>> THEN <<>>
    ELSE (IF Classify(Head(tree)) = list THEN <<Head(tree).path>> ELSE <<>>)
         \o Collect(Tail(tree), list)

loadFiles(tree) ==
    [databases |-> Collect(tree, "databases"),
     schemas |-> Collect(tree, "schemas"),
     tables |-> Collect(tree, "tables")]

\* restoreTableSchema: name and db of a schema file
SchemaName(schema) == Trim(Base(schema), schemaSuffix)
SchemaDb(schema) == Split(SchemaName(schema), <<".">>)[1]

\* restoreTable: splits of a table file's name
TableSplits(table) == Split(Trim(Base(table), tableSuffix), <<".">>)

\* strings.Split(sql, ";\n")
Querys(sql) == Split(sql, Separator)

\* the restore loops with the comment test left out
ExecutableNonEmpty(query) == query # <<>>

\* the test guarding conn.Execute(query) in both restore loops
Executable(query) == ~HasPrefix(query, CommentPrefix) /\ query # <<>>

\* the statements of sql that the restore loops execute, in order
Statements(sql) == SelectSeq(Querys(sql), Executable)

\* the values the restore functions compute from a file, tabulated per path
Paths == {Tree[n].path : n \in 1..Len(Tree)}
TableSplitsOf == [p \in Paths |-> TableSplits(p)]
SchemaUseOf == [p \in Paths |-> UseSql(SchemaDb(p))]
QuerysOf == [p \in Paths |-> Querys(FileText(p))]
TextOf == [p \in Paths |-> FileText(p)]

\* ------------------------------------------------------------------ state
VARIABLES
    threads,    \* args.Threads, the pool size
    tree,       \* the entries of args.Outdir in walk order
    files,      \* the Files value loadFiles returns (tables shuffled in place)
    free,       \* the pool: the connections not checked out
    closed,     \* pool.Close() has run
    acquired,   \* per connection, the number of pool.Get() that returned it
    released,   \* per connection, the number of pool.Put() given it
    session,    \* per connection, the file whose "use" statement ran last on it
    dpc,        \* the driver's position in Loader
    conn,       \* Loader's variable conn (lines 143 and 148)
    i,          \* the index of the driver's current loop
    querys,     \* restoreTableSchema's querys
    qi,         \* restoreTableSchema's position in querys, 0 before the "use"
    log,        \* the statements the driver executed, in order
    units,      \* the row-data goroutines, in dispatch order
    wg,         \* the WaitGroup counter
    bytes,      \* the shared byte counter
    tick,       \* the ticker: "none", "running" or "stopped"
    tickC,      \* the number of ticks buffered in tick.C (capacity 1)
    rpc,        \* the reporter goroutine: "none" or "waiting"
    summary,    \* the byte count of the final summary line, once printed
    proc,       \* "running" or "exited" (an unrecovered panic ended the process)
    failure     \* the first failed call: its phase and the units dispatched then

vars == <<threads, tree, files, free, closed, acquired, released, session, dpc, conn, i,
          querys, qi, log, units, wg, bytes, tick, tickC, rpc, summary, proc,
          failure>>

input == <<threads, tree>>
poolVars == <<free, closed, acquired, released>>
schemaVars == <<querys, qi, log>>
reporterVars == <<tick, tickC, rpc>>

Conns == 1..threads

\* the first failure is the one remembered
Fail(phase) ==
    IF failure.phase = "none" THEN [phase |-> phase, dispatched |-> Len(units)] ELSE failure

Init ==
    /\ threads \in 1..MaxThreads
    /\ tree \in Trees
    /\ files = [databases |-> <<>>, schemas |-> <<>>, tables |-> <<>>]
    /\ free = {}
    /\ closed = FALSE
    /\ acquired = [c \in Conns |-> 0]
    /\ released = [c \in Conns |-> 0]
    /\ session = [c \in Conns |-> <<>>]
    /\ dpc = "NewPool"
    /\ conn = 0
    /\ i = 1
    /\ querys = <<>>
    /\ qi = 0
    /\ log = <<>>
    /\ units = <<>>
    /\ wg = 0
    /\ bytes = 0
    /\ tick = "none"
    /\ tickC = 0
    /\ rpc = "none"
    /\ summary = <<>>
    /\ proc = "running"
    /\ failure = [phase |-> "none", dispatched |-> 0]

\* ------------------------------------------------------ the driver, Loader
\* Loader with the row-data dispatch written before the table-schema phase
LoaderOrderDataFirst ==
    <<"NewPool", "loadFiles", "get1", "databases", "put1", "shuffle", "dispatch", "get2",
      "schemas", "put2", "ticker", "wait", "summary", "stop", "close", "returned">>

\* the order of Loader's statements
LoaderOrder ==
    <<"NewPool", "loadFiles", "get1", "databases", "put1", "get2", "schemas", "put2",
      "shuffle", "dispatch", "ticker", "wait", "summary", "stop", "close", "returned">>

Then(pc) == LoaderOrder[(CHOOSE n \in 1..Len(LoaderOrder) : LoaderOrder[n] = pc) + 1]

\* pool.Get(): blocks until a connection is free.  The connections that were
\* never handed out are interchangeable, so of those only the lowest is tried.
PoolGet(c) ==
    /\ c \in free
    /\ acquired[c] = 0 => \A d \in free : acquired[d] = 0 => c <= d
    /\ free' = free \ {c}
    /\ acquired' = [acquired EXCEPT ![c] = @ + 1]
    /\ UNCHANGED closed

\* pool.Put(c)
PoolPut(c) ==
    /\ free' = free \cup {c}
    /\ released' = [released EXCEPT ![c] = @ + 1]
    /\ UNCHANGED <<closed, acquired>>

\* an entry of log: one conn.Execute call of the driver
Entry(c, phase, file, sql, ok) ==
    [conn |-> c, phase |-> phase, file |-> file, sql |-> sql, ok |-> ok]

\* line 136-138: NewPool, AssertNil, defer pool.Close()
NewPool ==
    /\ proc = "running" /\ dpc = "NewPool"
    /\ \E ok \in BOOLEAN :
        IF ok
        THEN /\ free' = Conns
             /\ dpc' = Then(dpc)
             /\ UNCHANGED <<proc, failure>>
        ELSE /\ proc' = "exited"
             /\ failure' = Fail("pool")
             /\ UNCHANGED <<free, dpc>>
    /\ UNCHANGED <<input, files, closed, acquired, released, session, conn, i, schemaVars,
                   units, wg, bytes, reporterVars, summary>>

\* line 140: files := loadFiles(log, args.Outdir); a walk error panics
LoadFiles ==
    /\ proc = "running" /\ dpc = "loadFiles"
    /\ \E ok \in BOOLEAN :
        IF ok
        THEN /\ files' = loadFiles(tree)
             /\ dpc' = Then(dpc)
             /\ UNCHANGED failure
        ELSE /\ dpc' = "panic"
             /\ failure' = Fail("walk")
             /\ UNCHANGED files
    /\ UNCHANGED <<input, poolVars, session, conn, i, schemaVars, units, wg, bytes,
                   reporterVars, summary, proc>>

\* lines 143 and 148: conn := pool.Get()
DriverGet(at) ==
    /\ proc = "running" /\ dpc = at
    /\ \E c \in Conns :
        /\ PoolGet(c)
        /\ conn' = c
    /\ dpc' = Then(dpc)
    /\ i' = 1
    /\ UNCHANGED <<input, files, released, session, schemaVars, units, wg, bytes,
                   reporterVars, summary, proc, failure>>

\* lines 145 and 150: pool.Put(conn)
DriverPut(at) ==
    /\ proc = "running" /\ dpc = at
    /\ PoolPut(conn)
    /\ dpc' = Then(dpc)
    /\ UNCHANGED <<input, files, session, conn, i, schemaVars, units, wg, bytes,
                   reporterVars, summary, proc, failure>>

\* restoreDatabaseSchema, one iteration: ReadFile, conn.Execute(sql)
RestoreDatabase ==
    /\ proc = "running" /\ dpc = "databases" /\ i <= Len(files.databases)
    /\ LET db == files.databases[i]
           sql == TextOf[db]
       IN \E out \in {"ok", "read", "exec"} :
            /\ log' = IF out = "read" THEN log
                      ELSE Append(log, Entry(conn, "database", db, sql, out = "ok"))
            /\ IF out = "ok"
               THEN /\ i' = i + 1
                    /\ UNCHANGED <<dpc, failure>>
               ELSE /\ dpc' = "panic"
                    /\ failure' = Fail("database")
                    /\ UNCHANGED i
    /\ UNCHANGED <<input, files, poolVars, session, conn, querys, qi, units, wg, bytes,
                   reporterVars, summary, proc>>

\* restoreDatabaseSchema returns
DatabasesDone ==
    /\ proc = "running" /\ dpc = "databases" /\ i > Len(files.databases)
    /\ dpc' = Then(dpc)
    /\ UNCHANGED <<input, files, poolVars, session, conn, i, schemaVars, units, wg, bytes,
                   reporterVars, summary, proc, failure>>

\* restoreTableSchema, lines 82-92: the "use" statement, ReadFile, Split
SchemaUse ==
    /\ proc = "running" /\ dpc = "schemas" /\ i <= Len(files.schemas) /\ qi = 0
    /\ LET schema == files.schemas[i]
       IN \E out \in {"ok", "read", "exec"} :
            /\ log' = Append(log, Entry(conn, "schema", schema, SchemaUseOf[schema],
                                        out # "exec"))
            /\ session' = IF out = "exec" THEN session
                          ELSE [session EXCEPT ![conn] = schema]
            /\ IF out = "ok"
               THEN /\ querys' = QuerysOf[schema]
                    /\ qi' = 1
                    /\ UNCHANGED <<dpc, failure>>
               ELSE /\ dpc' = "panic"
                    /\ failure' = Fail("schema")
                    /\ UNCHANGED <<querys, qi>>
    /\ UNCHANGED <<input, files, poolVars, conn, i, units, wg, bytes, reporterVars,
                   summary, proc>>

\* AssertNil(err): panics when err is not nil
AssertNil(ok) == IF ok THEN "next" ELSE "panic"

\* restoreTableSchema with the error of conn.Execute(query) dropped
SchemaQueryIgnoreErr(ok) == "next"

\* lines 95-96: err = conn.Execute(query); AssertNil(err)
SchemaQueryOutcome(ok) == AssertNil(ok)

\* restoreTableSchema, lines 93-98: one iteration of the loop over querys
SchemaQuery ==
    /\ proc = "running" /\ dpc = "schemas" /\ qi >= 1 /\ qi <= Len(querys)
    /\ IF Executable(querys[qi])
       THEN \E ok \in BOOLEAN :
            /\ log' = Append(log, Entry(conn, "schema", files.schemas[i], querys[qi], ok))
            /\ failure' = IF ok THEN failure ELSE Fail("schema")
            /\ IF SchemaQueryOutcome(ok) = "next"
               THEN qi' = qi + 1 /\ UNCHANGED dpc
               ELSE dpc' = "panic" /\ UNCHANGED qi
       ELSE /\ qi' = qi + 1
            /\ UNCHANGED <<log, dpc, failure>>
    /\ UNCHANGED <<input, files, poolVars, session, conn, i, querys, units, wg, bytes,
                   reporterVars, summary, proc>>

\* line 99: the file's loop is over, on to the next schema file
SchemaFileDone ==
    /\ proc = "running" /\ dpc = "schemas" /\ qi > Len(querys) /\ qi >= 1
    /\ i' = i + 1
    /\ qi' = 0
    /\ querys' = <<>>
    /\ UNCHANGED <<input, files, poolVars, session, dpc, conn, log, units, wg, bytes,
                   reporterVars, summary, proc, failure>>

\* restoreTableSchema returns
SchemasDone ==
    /\ proc = "running" /\ dpc = "schemas" /\ qi = 0 /\ i > Len(files.schemas)
    /\ dpc' = Then(dpc)
    /\ i' = 1
    /\ UNCHANGED <<input, files, poolVars, session, conn, schemaVars, units, wg, bytes,
                   reporterVars, summary, proc, failure>>

\* an assignment of one element in place of the exchange of two
SwapOverwrite(s, a, b) == [s EXCEPT ![a] = s[b]]

\* lines 153-156, one iteration: j := rand.Intn(i + 1), swap (indices from 1)
Swap(s, a, b) == [s EXCEPT ![a] = s[b], ![b] = s[a]]

Shuffle ==
    /\ proc = "running" /\ dpc = "shuffle" /\ i <= Len(files.tables)
    /\ \E j \in 1..i : files' = [files EXCEPT !.tables = Swap(@, i, j)]
    /\ i' = i + 1
    /\ UNCHANGED <<input, poolVars, session, dpc, conn, schemaVars, units, wg, bytes,
                   reporterVars, summary, proc, failure>>

ShuffleDone ==
    /\ proc = "running" /\ dpc = "shuffle" /\ i > Len(files.tables)
    /\ dpc' = Then(dpc)
    /\ i' = 1
    /\ UNCHANGED <<input, files, poolVars, session, conn, schemaVars, units, wg, bytes,
                   reporterVars, summary, proc, failure>>

\* ------------------------------------------------- the row-data goroutines
\* a goroutine that returns its connection right after the "use" statement
UnitOrderPutFirst == <<"use", "put", "read", "exec", "add", "done", "end">>

\* a goroutine that never returns its connection
UnitOrderNoPut == <<"use", "read", "exec", "add", "done", "end">>

\* a goroutine whose wg.Done() runs before the byte count is added
UnitOrderDoneFirst == <<"use", "read", "exec", "done", "add", "put", "end">>

\* the order of a goroutine's steps: restoreTable (the "use" statement, then
\* ReadFile, then the loop over querys), atomic.AddUint64, then the deferred
\* wg.Done() and pool.Put(conn)
UnitOrder == <<"use", "read", "exec", "add", "done", "put", "end">>

UnitThen(pc) == UnitOrder[(CHOOSE n \in 1..Len(UnitOrder) : UnitOrder[n] = pc) + 1]

\* where a goroutine goes after a step: when it is panicking and its deferred
\* function has returned, the runtime ends the process
UnitAfter(u) ==
    IF u.panicking /\ UnitThen(u.pc) = "end" THEN "crash" ELSE UnitThen(u.pc)

\* a panic in restoreTable unwinds to the deferred function (lines 165-168)
Panicking(u) ==
    [u EXCEPT !.panicking = TRUE, !.pc = "done", !.querys = <<>>, !.qi = 0, !.r = 0]

\* every goroutine reading the loop variable after the loop has moved on
RangeTableLast(tables, n) == tables[Len(tables)]

\* line 161: the element the range loop hands to iteration n
RangeTable(tables, n) == tables[n]

\* line 161: the range loop is over
RangeDone(tables, n) == n > Len(tables)

\* lines 162-171: pool.Get(), wg.Add(1), go func(conn, table)
Dispatch ==
    /\ proc = "running" /\ dpc = "dispatch" /\ ~RangeDone(files.tables, i)
    /\ \E c \in Conns :
        /\ PoolGet(c)
        /\ units' = Append(units, [table |-> RangeTable(files.tables, i), conn |-> c,
                                   pc |-> Head(UnitOrder), querys |-> <<>>, qi |-> 0,
                                   r |-> 0, executed |-> FALSE, panicking |-> FALSE])
    /\ wg' = wg + 1
    /\ i' = i + 1
    /\ UNCHANGED <<input, files, released, session, dpc, conn, schemaVars, bytes,
                   reporterVars, summary, proc, failure>>

DispatchDone ==
    /\ proc = "running" /\ dpc = "dispatch" /\ RangeDone(files.tables, i)
    /\ dpc' = Then(dpc)
    /\ UNCHANGED <<input, files, poolVars, session, conn, i, schemaVars, units, wg, bytes,
                   reporterVars, summary, proc, failure>>

\* restoreTable, lines 104-118, with the outcome ok of conn.Execute: the
\* names (a name of fewer than two segments panics at splits[1], index out of
\* range), then the "use" statement
UseResult(u, ok) ==
    IF Len(TableSplitsOf[u.table]) < 2 THEN Panicking(u)
    ELSE IF ok
         THEN [u EXCEPT !.pc = UnitThen(u.pc), !.executed = TRUE]
         ELSE [Panicking(u) EXCEPT !.executed = TRUE]

UnitUse(n) ==
    /\ proc = "running" /\ n \in 1..Len(units) /\ units[n].pc = "use"
    /\ \E ok \in BOOLEAN :
        /\ units' = [units EXCEPT ![n] = UseResult(units[n], ok)]
        /\ session' = IF units'[n].executed /\ ok
                      THEN [session EXCEPT ![units[n].conn] = units[n].table]
                      ELSE session
        /\ failure' = IF units'[n].panicking THEN Fail("data") ELSE failure
    /\ UNCHANGED <<input, files, poolVars, dpc, conn, i, schemaVars, wg, bytes,
                   reporterVars, summary, proc>>

\* restoreTable, lines 120-124, with the outcome ok of ReadFile: the text,
\* its split into querys, bytes = len(sql)
ReadResult(u, ok) ==
    IF ok
    THEN [u EXCEPT !.pc = UnitThen(u.pc),
                   !.querys = QuerysOf[u.table],
                   !.qi = 1,
                   !.r = Len(TextOf[u.table])]
    ELSE Panicking(u)

UnitRead(n) ==
    /\ proc = "running" /\ n \in 1..Len(units) /\ units[n].pc = "read"
    /\ \E ok \in BOOLEAN :
        /\ units' = [units EXCEPT ![n] = ReadResult(units[n], ok)]
        /\ failure' = IF ok THEN failure ELSE Fail("data")
    /\ UNCHANGED <<input, files, poolVars, session, dpc, conn, i, schemaVars, wg, bytes,
                   reporterVars, summary, proc>>

\* restoreTable, lines 125-132: one iteration of the loop over querys; after
\* the last one the function returns bytes
UnitQuery(n) ==
    /\ proc = "running" /\ n \in 1..Len(units) /\ units[n].pc = "exec"
    /\ LET u == units[n]
           next == IF u.qi + 1 > Len(u.querys)
                   THEN [u EXCEPT !.pc = UnitThen(u.pc), !.querys = <<>>, !.qi = 0]
                   ELSE [u EXCEPT !.qi = u.qi + 1]
       IN IF Executable(u.querys[u.qi])
          THEN \E ok \in BOOLEAN :
               IF ok
               THEN /\ units' = [units EXCEPT ![n] = next]
                    /\ UNCHANGED failure
               ELSE /\ units' = [units EXCEPT ![n] = Panicking(u)]
                    /\ failure' = Fail("data")
          ELSE /\ units' = [units EXCEPT ![n] = next]
               /\ UNCHANGED failure
    /\ UNCHANGED <<input, files, poolVars, session, dpc, conn, i, schemaVars, wg, bytes,
                   reporterVars, summary, proc>>

\* line 170: atomic.AddUint64(&bytes, uint64(r))
UnitAdd(n) ==
    /\ proc = "running" /\ n \in 1..Len(units) /\ units[n].pc = "add"
    /\ bytes' = bytes + units[n].r
    /\ units' = [units EXCEPT ![n] = [units[n] EXCEPT !.pc = UnitAfter(units[n]), !.r = 0]]
    /\ UNCHANGED <<input, files, poolVars, session, dpc, conn, i, schemaVars, wg,
                   reporterVars, summary, proc, failure>>

\* line 166: wg.Done()
UnitDone(n) ==
    /\ proc = "running" /\ n \in 1..Len(units) /\ units[n].pc = "done"
    /\ wg' = wg - 1
    /\ units' = [units EXCEPT ![n].pc = UnitAfter(units[n])]
    /\ UNCHANGED <<input, files, poolVars, session, dpc, conn, i, schemaVars, bytes,
                   reporterVars, summary, proc, failure>>

\* line 167: pool.Put(conn)
UnitPut(n) ==
    /\ proc = "running" /\ n \in 1..Len(units) /\ units[n].pc = "put"
    /\ PoolPut(units[n].conn)
    /\ units' = [units EXCEPT ![n].pc = UnitAfter(units[n])]
    /\ UNCHANGED <<input, files, session, dpc, conn, i, schemaVars, wg, bytes,
                   reporterVars, summary, proc, failure>>

\* the panic was not recovered: the runtime ends the process
UnitCrash(n) ==
    /\ proc = "running" /\ n \in 1..Len(units) /\ units[n].pc = "crash"
    /\ proc' = "exited"
    /\ UNCHANGED <<input, files, poolVars, session, dpc, conn, i, schemaVars, units, wg,
                   bytes, reporterVars, summary, failure>>

\* ------------------------------------------------------------ the reporter
\* lines 174-183: time.NewTicker, defer tick.Stop(), go func
StartReporter ==
    /\ proc = "running" /\ dpc = "ticker"
    /\ tick' = "running"
    /\ rpc' = "waiting"
    /\ dpc' = Then(dpc)
    /\ UNCHANGED <<input, files, poolVars, session, conn, i, schemaVars, units, wg, bytes,
                   tickC, summary, proc, failure>>

\* the ticker sends on tick.C; a tick is dropped when one is already buffered
Tick ==
    /\ proc = "running" /\ tick = "running" /\ tickC = 0
    /\ tickC' = 1
    /\ UNCHANGED <<input, files, poolVars, session, dpc, conn, i, schemaVars, units, wg,
                   bytes, tick, rpc, summary, proc, failure>>

\* lines 177-182: one iteration of the loop over tick.C: it loads bytes and
\* logs a line
Report ==
    /\ proc = "running" /\ rpc = "waiting" /\ tickC = 1
    /\ tickC' = 0
    /\ UNCHANGED <<input, files, poolVars, session, dpc, conn, i, schemaVars, units, wg,
                   bytes, tick, rpc, summary, proc, failure>>

\* ------------------------------------------------------ the end of Loader
\* line 185: wg.Wait()
Wait ==
    /\ proc = "running" /\ dpc = "wait" /\ wg = 0
    /\ dpc' = Then(dpc)
    /\ UNCHANGED <<input, files, poolVars, session, conn, i, schemaVars, units, wg, bytes,
                   reporterVars, summary, proc, failure>>

\* lines 186-187: the final summary reads bytes
Summary ==
    /\ proc = "running" /\ dpc = "summary"
    /\ summary' = <<bytes>>
    /\ dpc' = Then(dpc)
    /\ UNCHANGED <<input, files, poolVars, session, conn, i, schemaVars, units, wg, bytes,
                   reporterVars, proc, failure>>

\* line 175, deferred: tick.Stop() stops the ticker and does not close tick.C
StopTicker ==
    /\ proc = "running" /\ dpc = "stop"
    /\ tick' = "stopped"
    /\ dpc' = Then(dpc)
    /\ UNCHANGED <<input, files, poolVars, session, conn, i, schemaVars, units, wg, bytes,
                   tickC, rpc, summary, proc, failure>>

\* line 138, deferred: pool.Close(); Loader returns
ClosePool ==
    /\ proc = "running" /\ dpc = "close"
    /\ closed' = TRUE
    /\ dpc' = Then(dpc)
    /\ UNCHANGED <<input, files, free, acquired, released, session, conn, i, schemaVars,
                   units, wg, bytes, reporterVars, summary, proc, failure>>

\* a panic in the driver: the deferred calls run (tick.Stop() if the ticker
\* exists, pool.Close()), then the runtime ends the process
DriverPanic ==
    /\ proc = "running" /\ dpc = "panic"
    /\ tick' = IF tick = "running" THEN "stopped" ELSE tick
    /\ closed' = TRUE
    /\ proc' = "exited"
    /\ UNCHANGED <<input, files, free, acquired, released, session, dpc, conn, i,
                   schemaVars, units, wg, bytes, tickC, rpc, summary, failure>>

\* the steps of the driver goroutine
Driver ==
    \/ NewPool
    \/ LoadFiles
    \/ DriverGet("get1")
    \/ RestoreDatabase
    \/ DatabasesDone
    \/ DriverPut("put1")
    \/ DriverGet("get2")
    \/ SchemaUse
    \/ SchemaQuery
    \/ SchemaFileDone
    \/ SchemasDone
    \/ DriverPut("put2")
    \/ Shuffle
    \/ ShuffleDone
    \/ Dispatch
    \/ DispatchDone
    \/ StartReporter
    \/ Wait
    \/ Summary
    \/ StopTicker
    \/ ClosePool
    \/ DriverPanic

\* the steps of the n-th row-data goroutine
Unit(n) ==
    \/ UnitUse(n)
    \/ UnitRead(n)
    \/ UnitQuery(n)
    \/ UnitAdd(n)
    \/ UnitDone(n)
    \/ UnitPut(n)
    \/ UnitCrash(n)

Next ==
    \/ Driver
    \/ \E n \in 1..MaxTables : Unit(n)
    \/ Tick
    \/ Report

Spec == Init /\ [][Next]_vars

\* the scheduler lets no goroutine that can run wait forever
FairSpec ==
    /\ Init /\ [][Next]_vars
    /\ WF_vars(Driver)
    /\ \A n \in 1..MaxTables : WF_vars(Unit(n))
    /\ WF_vars(Report)

\* ------------------------------------------------------------- properties
RECURSIVE SumLen(_)
SumLen(paths) == IF paths = <<>> THEN 0 ELSE Len(FileText(Head(paths))) + SumLen(Tail(paths))

RECURSIVE SumOver(_, _)
SumOver(f, S) ==
    IF S = {} THEN 0 ELSE LET c == CHOOSE x \in S : TRUE IN f[c] + SumOver(f, S \ {c})

Range(f) == {f[x] : x \in DOMAIN f}

\* the statements a complete schema restore executes, in order
RECURSIVE DatabaseStatements(_)
DatabaseStatements(dbs) ==
    IF dbs = <<>> THEN <<>>
    ELSE <<[phase |-> "database", file |-> Head(dbs), sql |-> FileText(Head(dbs))]>>
         \o DatabaseStatements(Tail(dbs))

FileStatements(schema) ==
    LET st == Statements(FileText(schema))
    IN <<[phase |-> "schema", file |-> schema, sql |-> UseSql(SchemaDb(schema))]>>
       \o [k \in 1..Len(st) |-> [phase |-> "schema", file |-> schema, sql |-> st[k]]]

RECURSIVE SchemaStatements(_)
SchemaStatements(schemas) ==
    IF schemas = <<>> THEN <<>>
    ELSE FileStatements(Head(schemas)) \o SchemaStatements(Tail(schemas))

Executed == [k \in 1..Len(log) |-> [phase |-> log[k].phase, file |-> log[k].file, sql |-> log[k].sql]]

SchemaComplete ==
    Executed = DatabaseStatements(files.databases) \o SchemaStatements(files.schemas)

Unfinished(n) == units[n].pc \in {"use", "read", "exec", "add", "done", "put"}
Restored(n) == units[n].pc \in {"put", "end"} /\ ~units[n].panicking
NoUnitFailed == \A n \in 1..Len(units) : ~units[n].panicking
CheckedOut == SumOver(acquired, Conns) - SumOver(released, Conns)

\* C1: no row-data unit is dispatched, and no row-data statement is executed,
\* before the database phase, the table-schema phase and the shuffle are over:
\* by then every statement of every database and schema file has been executed.
C1_PhaseOrdering ==
    Len(units) > 0 =>
        /\ SchemaComplete
        /\ dpc \in {"dispatch", "ticker", "wait", "summary", "stop", "close", "returned"}

C1_Witness ==
    /\ \E n \in 1..Len(units) : units[n].executed
    /\ Len(log) = 6

\* C2: the number of connections checked out, and the number of row-data units
\* started and not finished, never exceed the pool size.
C2_PoolBound ==
    /\ CheckedOut <= threads
    /\ Cardinality({n \in 1..Len(units) : Unfinished(n)}) <= threads

C2_Witness ==
    /\ dpc = "dispatch"
    /\ Len(files.tables) > threads
    /\ Len(units) < Len(files.tables)
    /\ Cardinality({n \in 1..Len(units) : Unfinished(n)}) = threads
    /\ CheckedOut = threads

\* C3: a connection held by an unfinished unit is not in the pool and is held
\* by no other unfinished unit.
C3_ExclusiveConnection ==
    \A n \in 1..Len(units) :
        Unfinished(n) =>
            /\ units[n].conn \notin free
            /\ \A m \in 1..Len(units) :
                 m # n /\ Unfinished(m) => units[m].conn # units[n].conn

C3_Witness ==
    \E n, m \in 1..Len(units) :
        /\ n # m
        /\ units[n].pc = "exec" /\ units[m].pc = "exec"

\* C4: when the run is over every connection has been released as often as it
\* was acquired, also when the work that held it failed.
C4_EveryAcquisitionReleased ==
    (\/ proc = "exited"
     \/ dpc = "returned" /\ \A n \in 1..Len(units) : units[n].pc = "end")
        => \A c \in Conns : released[c] = acquired[c]

\* C5: the byte counter never decreases, and when no unit failed the byte count
\* of the final summary is the sum of the lengths of the texts of all table files.
C5_Progress ==
    /\ [][bytes' >= bytes]_vars
    /\ [](summary # <<>> /\ NoUnitFailed => summary = <<SumLen(files.tables)>>)

C5_Witness ==
    /\ summary # <<>>
    /\ NoUnitFailed
    /\ Len(units) = 2
    /\ summary[1] > 0

\* C6: the units are handed pairwise different files of the tables list, and
\* when the final summary is printed in a run without failure every file of
\* the list has been dispatched and restored.
C6_EachFileOnce ==
    /\ \A n, m \in 1..Len(units) : n # m => units[n].table # units[m].table
    /\ \A n \in 1..Len(units) : units[n].table \in Range(files.tables)
    /\ summary # <<>> /\ NoUnitFailed =>
          /\ Len(units) = Len(files.tables)
          /\ \A n \in 1..Len(units) : Restored(n)

C6_Witness ==
    /\ summary # <<>>
    /\ NoUnitFailed
    /\ Len(units) = 2
    /\ \A n \in 1..Len(units) : units[n].pc = "end"

\* C7: while table files are being dispatched the reporter is already running.
C7_ReporterDuringDispatch ==
    dpc = "dispatch" /\ Len(units) >= 1 => rpc = "waiting"

\* C8: once Loader has returned, the reporter's loop eventually terminates.
C8_ReporterStops == (dpc = "returned") ~> (rpc = "stopped")

\* C9: after a row-data failure no unit dispatched after the failure executes
\* a statement.
C9_NoStartAfterFailure ==
    failure.phase = "data" =>
        \A n \in 1..Len(units) : n > failure.dispatched => ~units[n].executed

\* C10: after a failure in the database or table-schema phase no further
\* statement is executed and no row-data unit is ever dispatched.
C10_SchemaFailureAborts ==
    /\ [][failure.phase \in {"database", "schema"} => log' = log /\ units' = units]_vars
    /\ [](failure.phase \in {"database", "schema"} => units = <<>>)

C10_Witness ==
    /\ proc = "exited"
    /\ failure.phase = "schema"
    /\ Len(log) = 4
    /\ ~log[4].ok

\* the position of a path in the walk
Visit(path) == CHOOSE n \in 1..Len(tree) : tree[n].path = path

\* list holds paths of the walk, each once, in visiting order
InWalkOrder(list) ==
    /\ \A k \in 1..Len(list) : \E n \in 1..Len(tree) : tree[n].path = list[k]
    /\ \A k, m \in 1..Len(list) : k < m => Visit(list[k]) < Visit(list[m])

\* loadFiles has returned and the tables list is not shuffled yet
Catalogued == dpc \in {"get1", "databases", "put1", "get2", "schemas", "put2"}

\* C11: a file whose path ends in -schema-create.sql is in databases only,
\* otherwise one ending in -schema.sql is in schemas only, otherwise one ending
\* in .sql is in tables only; every other file and every directory is in no
\* list; each list holds its paths once, in the walk's visiting order.
C11_Classification ==
    Catalogued =>
        /\ \A n \in 1..Len(tree) :
             LET e == tree[n]
                 db == e.path \in Range(files.databases)
                 sc == e.path \in Range(files.schemas)
                 tb == e.path \in Range(files.tables)
             IN IF e.dir THEN ~db /\ ~sc /\ ~tb
                ELSE IF HasSuffix(e.path, dbSuffix) THEN db /\ ~sc /\ ~tb
                ELSE IF HasSuffix(e.path, schemaSuffix) THEN ~db /\ sc /\ ~tb
                ELSE IF HasSuffix(e.path, tableSuffix) THEN ~db /\ ~sc /\ tb
                ELSE ~db /\ ~sc /\ ~tb
        /\ InWalkOrder(files.databases)
        /\ InWalkOrder(files.schemas)
        /\ InWalkOrder(files.tables)

C11_Witness ==
    /\ dpc = "get1"
    /\ Len(files.databases) = 1
    /\ Len(files.schemas) = 2
    /\ Len(files.tables) = 2
    /\ Len(tree) = 8

\* the number of times x occurs in s
Occurrences(s, x) == Cardinality({k \in 1..Len(s) : s[k] = x})

\* C12: during and after the shuffle the tables list holds the elements
\* loadFiles put in it, each as often as before, whatever indices were drawn.
C12_ShufflePermutation ==
    dpc \notin {"NewPool", "loadFiles"} /\ failure.phase \notin {"pool", "walk"} =>
        /\ Len(files.tables) = Len(Collect(tree, "tables"))
        /\ \A p \in Paths :
             Occurrences(files.tables, p) = Occurrences(Collect(tree, "tables"), p)

C12_Witness ==
    /\ dpc = "dispatch"
    /\ Len(files.tables) = 2
    /\ files.tables # Collect(tree, "tables")

\* the segments of a file's base name once its classifying suffix is removed
Segments(file, suffix) == Split(TrimSuffix(Base(file), suffix), <<".">>)

UsePrefix == <<"u", "s", "e", " ">>

\* C13: the database named in a schema file's "use" statement is the first
\* segment of the file's base name without its suffix, and the names a
\* row-data unit works with are the segments of its file's base name without
\* its suffix.
C13_NamesBySuffixRemoval ==
    /\ \A k \in 1..Len(log) :
         log[k].phase = "schema" /\ HasPrefix(log[k].sql, UsePrefix) =>
            log[k].sql = UseSql(Segments(log[k].file, schemaSuffix)[1])
    /\ \A n \in 1..Len(units) :
         units[n].executed =>
            TableSplitsOf[units[n].table] = Segments(units[n].table, tableSuffix)

\* C14: every path of the tables list yields at least two segments, and every
\* unit that is past the derivation of its names got them without failing.
C14_TableNamesHaveTwoSegments ==
    /\ \A n \in 1..Len(files.tables) : Len(TableSplitsOf[files.tables[n]]) >= 2
    /\ \A n \in 1..Len(units) : units[n].pc # "use" => units[n].executed

\* a piece of a file's text that is a statement: not empty, not a comment
IsStatement(piece) == piece # <<>> /\ ~(Len(piece) >= 2 /\ piece[1] = "/" /\ piece[2] = "*")

\* what restoring one schema file executes: the "use", then its statements
SchemaPieces(schema) ==
    LET st == SelectSeq(Split(FileText(schema), Separator), IsStatement)
    IN <<[file |-> schema, sql |-> UseSql(SchemaDb(schema))]>>
       \o [k \in 1..Len(st) |-> [file |-> schema, sql |-> st[k]]]

RECURSIVE SchemaRun(_)
SchemaRun(schemas) ==
    IF schemas = <<>> THEN <<>> ELSE SchemaPieces(Head(schemas)) \o SchemaRun(Tail(schemas))

InSchemaPhase(e) == e.phase = "schema"

\* the statements executed in the table-schema phase, in order
SchemaLog ==
    LET l == SelectSeq(log, InSchemaPhase)
    IN [k \in 1..Len(l) |-> [file |-> l[k].file, sql |-> l[k].sql]]

IsPrefix(a, b) == Len(a) <= Len(b) /\ a = SubSeq(b, 1, Len(a))

\* C15: the table-schema statements all run on one connection; at any time
\* they are the beginning of: for each schema file in list order its "use"
\* and then its non-empty, non-comment pieces in textual order; and when the
\* phase is over they are all of it.
C15_SchemaOnOneConnection ==
    /\ \A k, m \in 1..Len(log) :
         InSchemaPhase(log[k]) /\ InSchemaPhase(log[m]) => log[k].conn = log[m].conn
    /\ IsPrefix(SchemaLog, SchemaRun(files.schemas))
    /\ dpc \in {"put2", "shuffle", "dispatch", "ticker", "wait", "summary", "stop",
                "close", "returned"} => SchemaLog = SchemaRun(files.schemas)

C15_Witness ==
    /\ dpc = "put2"
    /\ Len(SchemaLog) = 5
    /\ threads = 2
    /\ log[1].conn # log[2].conn

\* C16: under fair scheduling, for every pool size and every number of table
\* files, a run in which no call fails reaches the final summary with every
\* file of the tables list dispatched and restored: the driver is never
\* blocked for good in pool.Get() or in wg.Wait().
C16_NoAcquisitionDeadlock ==
    <>(\/ failure.phase # "none"
       \/ /\ summary # <<>>
          /\ Len(units) = Len(files.tables)
          /\ \A n \in 1..Len(units) : Restored(n))

C16_Witness ==
    /\ threads = 1
    /\ Len(files.tables) = 2
    /\ failure.phase = "none"
    /\ summary # <<>>
    /\ closed

\* C17: once the driver is past wg.Wait() every connection is back in the pool
\* and no unit has its pool.Put(conn) still to do.
C17_ReturnedBeforeWaitReturns ==
    dpc \in {"summary", "stop", "close", "returned"} =>
        /\ free = Conns
        /\ \A n \in 1..Len(units) : units[n].pc # "put"

\* C18: the final summary is printed only when no row-data unit has failed.
C18_SummaryOnlyOnSuccess == summary # <<>> => NoUnitFailed

\* C19: a unit that is executing the statements of its file holds a connection
\* on which the last "use" statement executed is the one of that file.
C19_SessionOfOwnFile ==
    \A n \in 1..Len(units) :
        units[n].pc \in {"read", "exec"} => session[units[n].conn] = units[n].table

C19_Witness ==
    \E n, m \in 1..Len(units) :
        /\ n # m
        /\ units[m].pc = "end" /\ units[m].executed
        /\ units[m].conn = units[n].conn
        /\ units[n].pc = "exec" /\ units[n].qi = 2
====
